---- MODULE Spec2Model ----
(***************************************************************************)
(* Finalization pipeline of the rewind backend: the in-memory session      *)
(* store, the HTTP handlers around it, the three collaborator-backed       *)
(* stages (screen canonicalization, instance segmentation, template        *)
(* synthesis), the SQLite entity store, and the heuristic segmenter.       *)
(*                                                                         *)
(* JavaScript runs one handler at a time; another handler can run only     *)
(* while the first awaits the collaborator.  Each action below is the code *)
(* that runs between two such awaits.                                      *)
(***************************************************************************)
EXTENDS Integers, Sequences, FiniteSets, TLC

(***************************************************************************)
(* Bounds of the model.                                                    *)
(***************************************************************************)
\* total number of events /ingest accepts in one behaviour
MaxIngest == 2
\* total number of calls (HTTP finalize or direct pipeline call) in one behaviour
MaxCalls == 1
\* longest event list handed to a directly called stage
MaxStageEvents == 3
\* most clusters in one answer of the canonicalization collaborator
MaxClusters == 2
\* most instance tuples in one answer of the segmentation collaborator
MaxInsts == 2
\* longest event stream handed to the heuristic segmenter
MaxSegLen == 8

(***************************************************************************)
(* JavaScript values.                                                      *)
(***************************************************************************)
\* a field that is missing (undefined) or null; sqlite binds both as NULL
Undefined == "undefined"
\* the value of an object-valued field that is present
Present == "present"

Min(a, b) == IF a <= b THEN a ELSE b
Max(a, b) == IF a >= b THEN a ELSE b

Range(s) == {s[i] : i \in 1..Len(s)}

\* Array.prototype.slice(from, to) for 0-based from/to with 0 <= from
Slice(s, from, to) == [k \in 1..Max(0, Min(to, Len(s)) - from) |-> s[from + k]]

\* index (1-based) of the first element of s equal to x, 0 if none
IndexOf(s, x) == IF x \in Range(s) THEN CHOOSE i \in 1..Len(s) : s[i] = x /\ \A j \in 1..(i-1) : s[j] # x ELSE 0

\* [...new Set(s)]: the elements of s in first-occurrence order
RECURSIVE Dedupe(_)
Dedupe(s) == IF s = <<>> THEN <<>> ELSE LET r == Dedupe(SubSeq(s, 1, Len(s) - 1)) IN IF s[Len(s)] \in Range(r) THEN r ELSE Append(r, s[Len(s)])

(***************************************************************************)
(* URLs.  A URL is valid (new URL(url) parses it) or not; a valid URL has  *)
(* a host and path segments.  A segment carries what the three regular     *)
(* expressions of extractUrlPattern look at.                               *)
(***************************************************************************)
Seg(text, alnum, len, digits, uuid) == [text |-> text, alnum |-> alnum, len |-> len, digits |-> digits, uuid |-> uuid]

SegDp == Seg("dp", TRUE, 2, FALSE, FALSE)
SegCart == Seg("cart", TRUE, 4, FALSE, FALSE)
SegProdA == Seg("B09V3KXJPB", TRUE, 10, FALSE, FALSE)
SegNum == Seg("42", TRUE, 2, TRUE, FALSE)
SegUuid == Seg("123e4567-e89b-12d3-a456-426614174000", FALSE, 36, FALSE, TRUE)

Url(valid, host, path, raw) == [valid |-> valid, host |-> host, path |-> path, raw |-> raw]

UrlDpA == Url(TRUE, "amazon.com", <<SegDp, SegProdA>>, "https://amazon.com/dp/B09V3KXJPB")
UrlCart == Url(TRUE, "amazon.com", <<SegCart>>, "https://amazon.com/cart")
UrlDpNum == Url(TRUE, "amazon.com", <<SegDp, SegNum>>, "https://amazon.com/dp/42")
UrlDpUuid == Url(TRUE, "amazon.com", <<SegDp, SegUuid>>, "https://amazon.com/dp/123e4567-e89b-12d3-a456-426614174000")
UrlBad == Url(FALSE, "", <<>>, "not a url")

\* URLs the /ingest payloads of the server model carry
IngestUrls == {UrlDpA, UrlCart}
\* URLs of the events handed to a directly called canonicalizeScreens
StageUrls == {UrlDpA, UrlDpNum, UrlDpUuid, UrlCart, UrlBad}

\* a normalization that keeps numeric segments
PatternPartNoDigits(part) == IF part.alnum /\ part.len >= 8 THEN "*" ELSE IF part.uuid THEN "*" ELSE part.text

\* one path segment of extractUrlPattern: "*" for a likely dynamic segment
PatternPart(part) == IF part.alnum /\ part.len >= 8 THEN "*" ELSE IF part.uuid THEN "*" ELSE IF part.digits THEN "*" ELSE part.text

\* "/" + patternParts.join("/")
RECURSIVE JoinPath(_)
JoinPath(parts) == IF parts = <<>> THEN "" ELSE IF Len(parts) = 1 THEN parts[1] ELSE parts[1] \o "/" \o JoinPath(Tail(parts))

ExtractUrlPattern(url) == IF url.valid THEN "/" \o JoinPath([i \in 1..Len(url.path) |-> PatternPart(url.path[i])]) ELSE url.raw

(***************************************************************************)
(* Captured events.  screenshotPath is `storage/screenshots/<timestamp>.png`*)
(* and is modelled by the timestamp.                                       *)
(***************************************************************************)
EventWith(url, ts, actionSummary, targetText) ==
  [url |-> url, screenshotPath |-> ts, screenId |-> Undefined, actionSummary |-> actionSummary, targetText |-> targetText]

\* the event POST /ingest stores: it has the payload's targetText and no actionSummary
Event(url, ts) == EventWith(url, ts, Undefined, "Add to Cart")

\* a || b on texts: undefined and the empty string are falsy
OrText(a, b) == IF a = Undefined \/ a = "" THEN b ELSE a

\* text?.slice(0, k)
SliceText(text, k) == IF text = Undefined THEN Undefined ELSE SubSeq(text, 1, Min(k, Len(text)))

\* groupByUrlPattern: the Map's keys in insertion order, each with its events'
\* positions (1-based) in the list
PatternsOf(events) == Dedupe([i \in 1..Len(events) |-> ExtractUrlPattern(events[i].url)])

\* groupsForGPT together with urlGroups: entry g+1 is group id g, with the
\* screenshot of the group's first event (groupEvents[0].screenshotPath)
GroupByUrlPattern(events) ==
  LET pats == PatternsOf(events)
      all == [i \in 1..Len(events) |-> ExtractUrlPattern(events[i].url)]
  IN [g \in 1..Len(pats) |-> [urlPattern |-> pats[g], shot |-> events[IndexOf(all, pats[g])].screenshotPath]]

(***************************************************************************)
(* Identifiers.  `scr_`, `tmpl_` and `inst_` ids are the first 8 hex digits *)
(* of a random UUID; the model draws them from a counter, so every id is   *)
(* fresh.                                                                  *)
(***************************************************************************)
ScrId(n) == "scr_" \o ToString(n)
TmplId(n) == "tmpl_" \o ToString(n)
InstId(n) == "inst_" \o ToString(n)

\* exampleScreenshotPath of a screen no group gave a screenshot to ("")
NoShot == 0

(***************************************************************************)
(* canonicalizeScreens, after the collaborator answered.                   *)
(*   resp.kind      "error" (the call threw or timed out), "nonjson"       *)
(*                  (JSON.parse throws) or "json"                          *)
(*   resp.iterable  result.screenTypes is an array                         *)
(*   cluster.iterable  screenType.groupIds is an array                     *)
(***************************************************************************)
CanonError == [kind |-> "error", iterable |-> FALSE, screenTypes |-> <<>>]
CanonNonJson == [kind |-> "nonjson", iterable |-> FALSE, screenTypes |-> <<>>]
CanonNoArray == [kind |-> "json", iterable |-> FALSE, screenTypes |-> <<>>]
CanonJson(screenTypes) == [kind |-> "json", iterable |-> TRUE, screenTypes |-> screenTypes]
Cluster(groupIds, label, description) == [iterable |-> TRUE, groupIds |-> groupIds, canonicalLabel |-> label, description |-> description]
ClusterNoIds(label) == [iterable |-> FALSE, groupIds |-> <<>>, canonicalLabel |-> label, description |-> "d"]

\* the response matches the schema {screenTypes: [{groupIds[], canonicalLabel, description}]}
CanonWellFormed(resp) ==
  /\ resp.kind = "json"
  /\ resp.iterable
  /\ \A k \in 1..Len(resp.screenTypes) :
       /\ resp.screenTypes[k].iterable
       /\ resp.screenTypes[k].canonicalLabel # Undefined
       /\ resp.screenTypes[k].description # Undefined

\* something inside the try block throws: the call, JSON.parse, or a for-of
\* over a value that is not iterable
CanonThrows(resp) ==
  \/ resp.kind # "json"
  \/ ~resp.iterable
  \/ \E k \in 1..Len(resp.screenTypes) : ~resp.screenTypes[k].iterable

\* ids drawn by the try block before it threw (the id is drawn before groupIds is read)
CanonIdsBurnt(resp) ==
  IF resp.kind = "json" /\ resp.iterable /\ CanonThrows(resp)
  THEN CHOOSE k \in 1..Len(resp.screenTypes) : ~resp.screenTypes[k].iterable /\ \A j \in 1..(k-1) : resp.screenTypes[j].iterable
  ELSE 0

\* the groups (entries of groupsForGPT) a cluster names, in groupIds order
ClusterEntries(groups, groupIds) == SelectSeq(groupIds, LAMBDA g : g >= 0 /\ g < Len(groups))

\* one CanonicalScreen of the success path
CanonScreenOf(groups, screenType, id) ==
  LET entries == ClusterEntries(groups, screenType.groupIds)
  IN [id |-> id,
      label |-> screenType.canonicalLabel,
      description |-> screenType.description,
      urlPatterns |-> Dedupe([i \in 1..Len(entries) |-> groups[entries[i] + 1].urlPattern]),
      exampleScreenshotPath |-> IF entries = <<>> THEN NoShot ELSE groups[entries[1] + 1].shot]

CanonSuccessScreens(groups, resp, base) ==
  [k \in 1..Len(resp.screenTypes) |-> CanonScreenOf(groups, resp.screenTypes[k], ScrId(base + k))]

\* groupIdToScreenId.get(groupId): the last cluster naming the group wins
GroupIdToScreenId(resp, base, groupId) ==
  LET ks == {k \in 1..Len(resp.screenTypes) : groupId \in Range(resp.screenTypes[k].groupIds)}
  IN IF ks = {} THEN Undefined ELSE ScrId(base + CHOOSE k \in ks : \A j \in ks : j <= k)

\* groupsForGPT.findIndex(g => g.urlPattern === pattern)
FindGroupIndex(groups, pattern) ==
  IndexOf([g \in 1..Len(groups) |-> groups[g].urlPattern], pattern) - 1

\* the screen id the success path maps an event to (Undefined: the event is left alone)
CanonSuccessScreenIdOf(groups, resp, base, event) ==
  GroupIdToScreenId(resp, base, FindGroupIndex(groups, ExtractUrlPattern(event.url)))

\* the fallback of the catch block: one screen per URL pattern
CanonFallbackScreens(groups, base) ==
  [g \in 1..Len(groups) |->
     [id |-> ScrId(base + g),
      label |-> "Screen " \o ToString(g),
      description |-> "Screen at " \o groups[g].urlPattern,
      urlPatterns |-> <<groups[g].urlPattern>>,
      exampleScreenshotPath |-> groups[g].shot]]

CanonFallbackScreenIdOf(groups, base, event) ==
  LET g == FindGroupIndex(groups, ExtractUrlPattern(event.url))
  IN IF g < 0 THEN Undefined ELSE ScrId(base + g + 1)

\* the screen id canonicalizeScreens writes into an event, Undefined if none
CanonScreenIdOf(groups, resp, base, event) ==
  IF CanonThrows(resp)
  THEN CanonFallbackScreenIdOf(groups, base + CanonIdsBurnt(resp), event)
  ELSE CanonSuccessScreenIdOf(groups, resp, base, event)

\* CanonicalizeResult.screens
CanonScreens(groups, resp, base) ==
  IF CanonThrows(resp)
  THEN CanonFallbackScreens(groups, base + CanonIdsBurnt(resp))
  ELSE CanonSuccessScreens(groups, resp, base)

\* CanonicalizeResult.eventScreenMappings: entry i is the mapping of event
\* index i-1, Undefined when the Map has no such key
CanonMappings(groups, resp, base, events) ==
  [i \in 1..Len(events) |-> CanonScreenIdOf(groups, resp, base, events[i])]

\* the event list after canonicalizeScreens wrote the screen ids
CanonEvents(groups, resp, base, events) ==
  [i \in 1..Len(events) |->
     LET id == CanonScreenIdOf(groups, resp, base, events[i])
     IN IF id = Undefined THEN events[i] ELSE [events[i] EXCEPT !.screenId = id]]

\* ids drawn by one call
CanonIdsUsed(groups, resp) ==
  IF CanonThrows(resp) THEN CanonIdsBurnt(resp) + Len(groups) ELSE Len(resp.screenTypes)

(***************************************************************************)
(* segmentInstances, after the collaborator answered.                      *)
(*   resp.iterable   result.instances is an array                          *)
(*   inst.object     the array element is an object (not null)             *)
(*   inst.numeric    startEventIndex and endEventIndex are numbers; when    *)
(*                   they are missing, Math.min/Math.max give NaN (nan)     *)
(* A DetectedInstance holds its events by reference: `events` lists their  *)
(* positions (1-based) in the event array.                                 *)
(***************************************************************************)
SegError == [kind |-> "error", iterable |-> FALSE, instances |-> <<>>]
SegNonJson == [kind |-> "nonjson", iterable |-> FALSE, instances |-> <<>>]
SegNoArray == [kind |-> "json", iterable |-> FALSE, instances |-> <<>>]
SegJson(instances) == [kind |-> "json", iterable |-> TRUE, instances |-> instances]
Inst(goal, start, end, succeeded) == [object |-> TRUE, numeric |-> TRUE, goal |-> goal, startEventIndex |-> start, endEventIndex |-> end, succeeded |-> succeeded]
InstNoIndices(goal) == [object |-> TRUE, numeric |-> FALSE, goal |-> goal, startEventIndex |-> 0, endEventIndex |-> 0, succeeded |-> TRUE]
InstNull == [object |-> FALSE, numeric |-> FALSE, goal |-> Undefined, startEventIndex |-> 0, endEventIndex |-> 0, succeeded |-> FALSE]

SegThrows(resp) ==
  \/ resp.kind # "json"
  \/ ~resp.iterable
  \/ \E k \in 1..Len(resp.instances) : ~resp.instances[k].object

\* the response matches the schema {instances: [{goal, startEventIndex, endEventIndex, succeeded}]}
SegWellFormed(resp) ==
  /\ ~SegThrows(resp)
  /\ \A k \in 1..Len(resp.instances) : resp.instances[k].goal # Undefined /\ resp.instances[k].numeric

\* one DetectedInstance of the success path; n is events.length.  With NaN
\* indices (nan) events.slice(NaN, NaN) is empty.
ClampInstance(inst, n) ==
  LET start == Max(0, Min(inst.startEventIndex, n - 1))
      end == Max(start, Min(inst.endEventIndex, n - 1))
  IN IF inst.numeric
     THEN [goal |-> inst.goal,
           startEventIndex |-> start,
           endEventIndex |-> end,
           succeeded |-> inst.succeeded,
           events |-> Slice([i \in 1..n |-> i], start, end + 1),
           nan |-> FALSE]
     ELSE [goal |-> inst.goal,
           startEventIndex |-> 0,
           endEventIndex |-> 0,
           succeeded |-> inst.succeeded,
           events |-> <<>>,
           nan |-> TRUE]

\* instances.sort((a, b) => a.startEventIndex - b.startEventIndex), a stable sort
\* (an instance with NaN indices compares equal to every other; the answers
\* drawn carry such a tuple only on its own)
RECURSIVE SortByStart(_)
SortByStart(insts) ==
  IF insts = <<>> THEN <<>>
  ELSE LET rest == SortByStart(SubSeq(insts, 1, Len(insts) - 1))
           x == insts[Len(insts)]
           k == Cardinality({i \in 1..Len(rest) : rest[i].nan \/ x.nan \/ rest[i].startEventIndex <= x.startEventIndex})
       IN SubSeq(rest, 1, k) \o <<x>> \o SubSeq(rest, k + 1, Len(rest))

SegSingle == <<[goal |-> "Single action", startEventIndex |-> 0, endEventIndex |-> 0, succeeded |-> TRUE, events |-> <<1>>, nan |-> FALSE]>>

\* a catch block that gives up on the session
SegFallbackEmpty(n) == <<>>

SegFallback(n) == <<[goal |-> "Browsing session", startEventIndex |-> 0, endEventIndex |-> n - 1, succeeded |-> TRUE, events |-> [i \in 1..n |-> i], nan |-> FALSE]>>

\* SegmentationResult.instances for an event list of length n >= 2
SegInstances(resp, n) ==
  IF SegThrows(resp) THEN SegFallback(n)
  ELSE SortByStart([k \in 1..Len(resp.instances) |-> ClampInstance(resp.instances[k], n)])

(***************************************************************************)
(* synthesizeTemplate, after the collaborator answered.                    *)
(*   resp.template        result.template is an object                     *)
(*   resp.inputs/outputs  Undefined, or Present with the declared names in *)
(*                        inputNames/outputNames                           *)
(*   resp.steps           Undefined, or Present with the declared          *)
(*                        stepNumbers in stepNumbers                       *)
(*   resp.instanceValues  result.instanceValues is an object               *)
(*   resp.ivInputs/ivOutputs  Undefined, or Present with the names that    *)
(*                        have a value in ivInputNames/ivOutputNames       *)
(***************************************************************************)
SynthError == [kind |-> "error", template |-> Undefined, name |-> Undefined, description |-> Undefined,
               inputs |-> Undefined, inputNames |-> {}, outputs |-> Undefined, outputNames |-> {},
               steps |-> Undefined, stepNumbers |-> <<>>, instanceValues |-> Undefined,
               ivInputs |-> Undefined, ivInputNames |-> {}, ivOutputs |-> Undefined, ivOutputNames |-> {}]
SynthNonJson == [SynthError EXCEPT !.kind = "nonjson"]
SynthNoTemplate == [SynthError EXCEPT !.kind = "json"]
SynthJson(name, description, inputNames, outputNames, stepNumbers, ivInputNames, ivOutputNames) ==
  [kind |-> "json", template |-> Present, name |-> name, description |-> description,
   inputs |-> Present, inputNames |-> inputNames, outputs |-> Present, outputNames |-> outputNames,
   steps |-> Present, stepNumbers |-> stepNumbers, instanceValues |-> Present,
   ivInputs |-> Present, ivInputNames |-> ivInputNames, ivOutputs |-> Present, ivOutputNames |-> ivOutputNames]

\* something inside the try block throws
SynthThrows(resp) ==
  \/ resp.kind # "json"
  \/ resp.template = Undefined
  \/ resp.inputs = Undefined
  \/ resp.outputs = Undefined
  \/ resp.steps = Undefined
  \/ resp.instanceValues = Undefined
  \/ (resp.inputNames # {} /\ resp.ivInputs = Undefined)
  \/ (resp.outputNames # {} /\ resp.ivOutputs = Undefined)

\* the response matches the schema {template: {name, description, inputs,
\* outputs, steps}, instanceValues: {inputs, outputs}}
SynthWellFormed(resp) ==
  /\ resp.kind = "json"
  /\ resp.template = Present /\ resp.name # Undefined /\ resp.description # Undefined
  /\ resp.inputs = Present /\ resp.outputs = Present /\ resp.steps = Present
  /\ resp.instanceValues = Present /\ resp.ivInputs = Present /\ resp.ivOutputs = Present

\* screen?.label || "Unknown"
ScreenLabelOf(screens, event) ==
  LET hit == {k \in 1..Len(screens) : screens[k].id = event.screenId}
  IN IF event.screenId = Undefined \/ hit = {} THEN "Unknown"
     ELSE LET lab == screens[CHOOSE k \in hit : \A j \in hit : j <= k].label
          IN IF lab = Undefined THEN "Unknown" ELSE lab

\* action of a step snapshot: event.actionSummary || event.targetText?.slice(0, 100) || "User action"
\* in the try block, event.actionSummary || "Action" in the catch block
SnapshotAction(event, failed) ==
  IF failed THEN OrText(event.actionSummary, "Action")
  ELSE OrText(OrText(event.actionSummary, SliceText(event.targetText, 100)), "User action")

\* step snapshots numbered from 0
StepSnapshotsZeroBased(instance, screens, events, failed) ==
  [i \in 1..Len(instance.events) |->
     [stepNumber |-> i - 1,
      screenshotPath |-> events[instance.events[i]].screenshotPath,
      action |-> SnapshotAction(events[instance.events[i]], failed),
      screenLabel |-> ScreenLabelOf(screens, events[instance.events[i]])]]

\* stepSnapshots: one per event of the instance; events is the event array
StepSnapshots(instance, screens, events, failed) ==
  [i \in 1..Len(instance.events) |->
     [stepNumber |-> i,
      screenshotPath |-> events[instance.events[i]].screenshotPath,
      action |-> SnapshotAction(events[instance.events[i]], failed),
      screenLabel |-> ScreenLabelOf(screens, events[instance.events[i]])]]

\* a ParameterDef map: observedValues holds the value reported for the name, if any
ParamDefs(names, ivNames) == [p \in names |-> [observedValues |-> IF p \in ivNames THEN <<p>> ELSE <<>>]]

SynthSuccessTemplate(resp, id) ==
  [id |-> id, name |-> resp.name, description |-> resp.description,
   inputs |-> ParamDefs(resp.inputNames, resp.ivInputNames),
   outputs |-> ParamDefs(resp.outputNames, resp.ivOutputNames),
   steps |-> [i \in 1..Len(resp.stepNumbers) |-> [stepNumber |-> resp.stepNumbers[i], screenPattern |-> "pattern", actionTemplate |-> "action"]]]

\* a fallback step that carries the clicked text whole
FallbackActionTemplateWhole(event) == OrText(OrText(event.actionSummary, event.targetText), "Action")

\* actionTemplate of a fallback step: event.actionSummary || event.targetText?.slice(0, 50) || "Action"
FallbackActionTemplate(event) == OrText(OrText(event.actionSummary, SliceText(event.targetText, 50)), "Action")

SynthFallbackTemplate(instance, screens, events, id) ==
  [id |-> id, name |-> instance.goal, description |-> "Workflow: " \o instance.goal,
   inputs |-> ParamDefs({}, {}),
   outputs |-> ParamDefs({}, {}),
   steps |-> [i \in 1..Len(instance.events) |->
                [stepNumber |-> i,
                 screenPattern |-> ScreenLabelOf(screens, events[instance.events[i]]),
                 actionTemplate |-> FallbackActionTemplate(events[instance.events[i]])]]]

SynthTemplate(instance, screens, events, resp, id) ==
  IF SynthThrows(resp) THEN SynthFallbackTemplate(instance, screens, events, id) ELSE SynthSuccessTemplate(resp, id)

\* the WorkflowInstance; parameterValues/extractedValues are Present or
\* Undefined, parameterNames/extractedNames are their keys
SynthInstance(instance, screens, events, resp, sessionId, instId, tmplId) ==
  [id |-> instId, templateId |-> tmplId, sessionId |-> sessionId,
   parameterValues |-> IF SynthThrows(resp) THEN Present ELSE resp.ivInputs,
   parameterNames |-> IF SynthThrows(resp) THEN {} ELSE resp.ivInputNames,
   extractedValues |-> IF SynthThrows(resp) THEN Present ELSE resp.ivOutputs,
   extractedNames |-> IF SynthThrows(resp) THEN {} ELSE resp.ivOutputNames,
   stepSnapshots |-> StepSnapshots(instance, screens, events, SynthThrows(resp))]

\* SynthesisResult; n and n+1 number the two ids drawn
SynthesizeTemplate(instance, screens, events, resp, sessionId, n) ==
  [template |-> SynthTemplate(instance, screens, events, resp, TmplId(n)),
   instance |-> SynthInstance(instance, screens, events, resp, sessionId, InstId(n + 1), TmplId(n))]

(***************************************************************************)
(* The SQLite store: three tables keyed by id.  Every column is NOT NULL.  *)
(* A write that violates a constraint throws and leaves the table as it    *)
(* was; the writes before it stay (there is no transaction).               *)
(***************************************************************************)
EmptyDb == [screens |-> {}, templates |-> {}, instances |-> {}]

\* the columns of a row the model keeps: the key and the NOT NULL text columns
ScreenRow(screen) == [id |-> screen.id, label |-> screen.label, description |-> screen.description]
TemplateRow(template) == [id |-> template.id, name |-> template.name, description |-> template.description]
InstanceRow(instance) == [id |-> instance.id, templateId |-> instance.templateId, sessionId |-> instance.sessionId]

\* INSERT OR REPLACE
InsertOrReplace(rows, row) == {x \in rows : x.id # row.id} \cup {row}

\* the statement of insertCanonicalScreen succeeds
ScreenRowOk(screen) == screen.id # Undefined /\ screen.label # Undefined /\ screen.description # Undefined

\* the statement of insertWorkflowTemplate succeeds
TemplateRowOk(template) == template.id # Undefined /\ template.name # Undefined /\ template.description # Undefined

\* the statement of insertWorkflowInstance succeeds (plain INSERT: the id must be new;
\* JSON.stringify(undefined) is undefined and binds as NULL)
InstanceRowOk(rows, instance) ==
  /\ \A x \in rows : x.id # instance.id
  /\ instance.templateId # Undefined /\ instance.sessionId # Undefined
  /\ instance.parameterValues # Undefined /\ instance.extractedValues # Undefined

\* insertCanonicalScreens: [db, ok]; stops at the first statement that throws
RECURSIVE InsertCanonicalScreens(_, _)
InsertCanonicalScreens(d, screens) ==
  IF screens = <<>> THEN [db |-> d, ok |-> TRUE]
  ELSE IF ~ScreenRowOk(Head(screens)) THEN [db |-> d, ok |-> FALSE]
  ELSE InsertCanonicalScreens([d EXCEPT !.screens = InsertOrReplace(@, ScreenRow(Head(screens)))], Tail(screens))

RECURSIVE InsertWorkflowTemplates(_, _)
InsertWorkflowTemplates(d, templates) ==
  IF templates = <<>> THEN [db |-> d, ok |-> TRUE]
  ELSE IF ~TemplateRowOk(Head(templates)) THEN [db |-> d, ok |-> FALSE]
  ELSE InsertWorkflowTemplates([d EXCEPT !.templates = InsertOrReplace(@, TemplateRow(Head(templates)))], Tail(templates))

RECURSIVE InsertWorkflowInstances(_, _)
InsertWorkflowInstances(d, instances) ==
  IF instances = <<>> THEN [db |-> d, ok |-> TRUE]
  ELSE IF ~InstanceRowOk(d.instances, Head(instances)) THEN [db |-> d, ok |-> FALSE]
  ELSE InsertWorkflowInstances([d EXCEPT !.instances = @ \cup {InstanceRow(Head(instances))}], Tail(instances))

\* a step 4 that writes the instances before the templates
PersistAllInstancesFirst(d, screens, templates, instances) ==
  LET a == InsertCanonicalScreens(d, screens)
      b == IF a.ok THEN InsertWorkflowInstances(a.db, instances) ELSE a
      c == IF b.ok THEN InsertWorkflowTemplates(b.db, templates) ELSE b
  IN c

\* step 4 of runFinalizationPipeline: screens, then templates, then instances
PersistAll(d, screens, templates, instances) ==
  LET a == InsertCanonicalScreens(d, screens)
      b == IF a.ok THEN InsertWorkflowTemplates(a.db, templates) ELSE a
      c == IF b.ok THEN InsertWorkflowInstances(b.db, instances) ELSE b
  IN c

(***************************************************************************)
(* State.                                                                  *)
(***************************************************************************)
VARIABLES
  sessions,     \* SessionStore.sessions: sessionId -> its events array (0: no entry)
  heap,         \* the event arrays, by array id; arrays are shared by reference
  db,           \* the SQLite tables
  nextId,       \* ids drawn so far
  clock,        \* events ingested so far; the next payload's timestamp
  calls,        \* calls started so far
  req,          \* the calls in flight, by slot
  segEvents,    \* heuristic segmenter: events
  segBase,      \* heuristic segmenter: baseScreenIds
  segI,         \* heuristic segmenter: loop index i (0-based), 0 before the loop
  segSteps,     \* heuristic segmenter: steps
  segActive,    \* heuristic segmenter: active
  segSeen,      \* heuristic segmenter: seenInWorkflow
  segWorkflows, \* heuristic segmenter: workflows
  segPc         \* heuristic segmenter: "off", "loop" or "done"

serverVars == <<sessions, heap, db, nextId, clock, calls, req>>
segVars == <<segEvents, segBase, segI, segSteps, segActive, segSeen, segWorkflows, segPc>>
vars == <<sessions, heap, db, nextId, clock, calls, req, segEvents, segBase, segI, segSteps, segActive, segSeen, segWorkflows, segPc>>

SessionIds == {"s1"}
Reqs == {"r1", "r2"}

EmptyResult == [screens |-> <<>>, templates |-> <<>>, instances |-> <<>>]
NoReturn == [state |-> "none", value |-> EmptyResult]
NoResponse == [status |-> 0, ok |-> FALSE, error |-> "", message |-> "", data |-> EmptyResult]

\* a free slot
IdleReq ==
  [pc |-> "idle", kind |-> "none", sessionId |-> Undefined, events |-> 0,
   groups |-> <<>>, canonResp |-> CanonError, screens |-> <<>>, mappings |-> <<>>,
   detected |-> <<>>, results |-> <<>>,
   llm |-> [canon |-> 0, seg |-> 0, synth |-> 0], deletes |-> 0, storeFailed |-> FALSE,
   ret |-> NoReturn, response |-> NoResponse]

ServerInit ==
  /\ sessions = [sid \in SessionIds |-> 0]
  /\ heap = <<>>
  /\ db = EmptyDb
  /\ nextId = 0
  /\ clock = 0
  /\ calls = 0
  /\ req = [r \in Reqs |-> IdleReq]

SegOff ==
  /\ segEvents = <<>>
  /\ segBase = <<>>
  /\ segI = 0
  /\ segSteps = <<>>
  /\ segActive = FALSE
  /\ segSeen = {}
  /\ segWorkflows = <<>>
  /\ segPc = "off"

Init == ServerInit /\ SegOff

(***************************************************************************)
(* SessionStore.                                                           *)
(***************************************************************************)
\* SessionStore.get(sessionId) found an entry
SessionExists(ss, sid) == ss[sid] # 0

\* SessionStore.delete
SessionDelete(ss, sid) == [ss EXCEPT ![sid] = 0]

\* SessionStore.addEvent (with getOrCreate) on the pair [sessions, heap]
SessionAddEvent(ss, hp, sid, event) ==
  IF SessionExists(ss, sid)
  THEN [sessions |-> ss, heap |-> [hp EXCEPT ![ss[sid]] = Append(@, event)]]
  ELSE [sessions |-> [ss EXCEPT ![sid] = Len(hp) + 1], heap |-> Append(hp, <<event>>)]

(***************************************************************************)
(* A world is what one handler reads and writes: the session store, the    *)
(* event arrays, the tables, the id counter and the handler's own slot.    *)
(***************************************************************************)
World(r) == [sessions |-> sessions, heap |-> heap, db |-> db, nextId |-> nextId, rec |-> req[r]]

Commit(r, w) ==
  /\ sessions' = w.sessions
  /\ heap' = w.heap
  /\ db' = w.db
  /\ nextId' = w.nextId
  /\ req' = [req EXCEPT ![r] = w.rec]

\* res.json of the degenerate branch of POST /finalize-session
ResponseNoEvents == [status |-> 200, ok |-> TRUE, error |-> "", message |-> "No events to process", data |-> EmptyResult]
\* res.json after the pipeline returned
ResponseOk(value) == [status |-> 200, ok |-> TRUE, error |-> "", message |-> "", data |-> value]
\* res.status(400)
ResponseMissingId == [status |-> 400, ok |-> FALSE, error |-> "Missing sessionId", message |-> "", data |-> EmptyResult]
\* res.status(500) of the catch block
ResponseFailed == [status |-> 500, ok |-> FALSE, error |-> "Failed to finalize session", message |-> "", data |-> EmptyResult]

\* POST /finalize-session, unknown session or no events: delete and answer
HandlerDegenerate(w, sid) ==
  [w EXCEPT !.sessions = SessionDelete(@, sid),
            !.rec.deletes = @ + 1,
            !.rec.response = ResponseNoEvents,
            !.rec.pc = "done"]

\* HandlerSuccess without the clean-up of the session
HandlerSuccessKeepsSession(w, value) ==
  [w EXCEPT !.rec.response = ResponseOk(value), !.rec.pc = "done"]

\* POST /finalize-session after runFinalizationPipeline returned: delete and answer
HandlerSuccess(w, value) ==
  [w EXCEPT !.sessions = SessionDelete(@, w.rec.sessionId),
            !.rec.deletes = @ + 1,
            !.rec.response = ResponseOk(value),
            !.rec.pc = "done"]

\* POST /finalize-session, catch block
HandlerCatch(w) ==
  [w EXCEPT !.rec.response = ResponseFailed, !.rec.pc = "done"]

\* runFinalizationPipeline returns value to its caller
PipelineReturns(w, value) ==
  LET w1 == [w EXCEPT !.rec.ret = [state |-> "returned", value |-> value]]
  IN IF w.rec.kind = "finalize" THEN HandlerSuccess(w1, value) ELSE [w1 EXCEPT !.rec.pc = "done"]

\* PipelineThrows with the store error caught and dropped inside the pipeline
PipelineThrowsSwallowed(w) ==
  PipelineReturns([w EXCEPT !.rec.storeFailed = TRUE], EmptyResult)

\* a store write threw inside runFinalizationPipeline
PipelineThrows(w) ==
  LET w1 == [w EXCEPT !.rec.ret = [state |-> "threw", value |-> EmptyResult], !.rec.storeFailed = TRUE]
  IN IF w.rec.kind = "finalize" THEN HandlerCatch(w1) ELSE [w1 EXCEPT !.rec.pc = "done"]

\* a synthesizeTemplate that issues its call twice
SynthesisCallTwice(w) == [w EXCEPT !.rec.pc = "awaitSynth", !.rec.llm.synth = @ + 2]

\* synthesizeTemplate up to its await
SynthesisCall(w) == [w EXCEPT !.rec.pc = "awaitSynth", !.rec.llm.synth = @ + 1]

\* runFinalizationPipeline from the return of segmentInstances to the next await
AfterSegmentation(w, detected) ==
  LET w1 == [w EXCEPT !.rec.detected = detected]
  IN IF w.rec.kind = "seg" THEN [w1 EXCEPT !.rec.pc = "done"]
     ELSE IF Len(detected) = 0
     THEN LET p == InsertCanonicalScreens(w.db, w.rec.screens)
              w2 == [w1 EXCEPT !.db = p.db]
          IN IF p.ok
             THEN PipelineReturns(w2, [screens |-> w.rec.screens, templates |-> <<>>, instances |-> <<>>])
             ELSE PipelineThrows(w2)
     ELSE SynthesisCall(w1)

\* SegmentationCall that asks the collaborator about a single event too
SegmentationCallNoSingle(w) ==
  IF Len(w.heap[w.rec.events]) = 0 THEN AfterSegmentation(w, <<>>)
  ELSE [w EXCEPT !.rec.pc = "awaitSeg", !.rec.llm.seg = @ + 1]

\* segmentInstances up to its await (or its return, for fewer than 2 events)
SegmentationCall(w) ==
  LET n == Len(w.heap[w.rec.events])
  IN IF n = 0 THEN AfterSegmentation(w, <<>>)
     ELSE IF n = 1 THEN AfterSegmentation(w, SegSingle)
     ELSE [w EXCEPT !.rec.pc = "awaitSeg", !.rec.llm.seg = @ + 1]

\* canonicalizeScreens up to its await: the groups are those of the events so far
CanonicalizeCall(w) ==
  [w EXCEPT !.rec.groups = GroupByUrlPattern(w.heap[w.rec.events]),
            !.rec.pc = "awaitCanon",
            !.rec.llm.canon = @ + 1]

\* PipelineCall without the short-circuit for an empty event list
PipelineCallNoShortCircuit(w) == CanonicalizeCall(w)

\* runFinalizationPipeline up to its first await
PipelineCall(w) ==
  IF Len(w.heap[w.rec.events]) = 0 THEN PipelineReturns(w, EmptyResult) ELSE CanonicalizeCall(w)

\* canonicalizeScreens from the collaborator's answer to its return
CanonicalizeReturn(w, resp) ==
  LET evs == w.heap[w.rec.events]
  IN [w EXCEPT !.heap[w.rec.events] = CanonEvents(w.rec.groups, resp, w.nextId, evs),
               !.nextId = @ + CanonIdsUsed(w.rec.groups, resp),
               !.rec.canonResp = resp,
               !.rec.screens = CanonScreens(w.rec.groups, resp, w.nextId),
               !.rec.mappings = CanonMappings(w.rec.groups, resp, w.nextId, evs)]

\* synthesizeTemplates: one more result; then the next call, or step 4 and the return
AfterSynthesis(w, resp) ==
  LET rec == w.rec
      pair == SynthesizeTemplate(rec.detected[Len(rec.results) + 1], rec.screens, w.heap[rec.events], resp, rec.sessionId, w.nextId + 1)
      results == Append(rec.results, pair)
      w1 == [w EXCEPT !.nextId = @ + 2, !.rec.results = results]
      templates == [i \in 1..Len(results) |-> results[i].template]
      instances == [i \in 1..Len(results) |-> results[i].instance]
      p == PersistAll(w.db, rec.screens, templates, instances)
  IN IF rec.kind = "synth" THEN [w1 EXCEPT !.rec.pc = "done"]
     ELSE IF Len(results) < Len(rec.detected) THEN SynthesisCall(w1)
     ELSE IF p.ok THEN PipelineReturns([w1 EXCEPT !.db = p.db], [screens |-> rec.screens, templates |-> templates, instances |-> instances])
     ELSE PipelineThrows([w1 EXCEPT !.db = p.db])

(***************************************************************************)
(* Actions of the server.                                                  *)
(***************************************************************************)
\* POST /ingest with a payload and a screenshot
Ingest(sid, url) ==
  /\ clock < MaxIngest
  /\ LET a == SessionAddEvent(sessions, heap, sid, Event(url, clock + 1))
     IN sessions' = a.sessions /\ heap' = a.heap
  /\ clock' = clock + 1
  /\ UNCHANGED <<db, nextId, calls, req>>
  /\ UNCHANGED segVars

\* a finalize that answers "no events" while another request is finalizing the session
FinalizeSessionLocked(r, sid) ==
  /\ req[r].pc = "idle"
  /\ calls' = calls + 1
  /\ LET w == [World(r) EXCEPT !.rec.kind = "finalize", !.rec.sessionId = sid]
         busy == \E q \in Reqs : req[q].kind = "finalize" /\ req[q].sessionId = sid /\ req[q].pc \notin {"idle", "done"}
     IN IF sid = Undefined
        THEN Commit(r, [w EXCEPT !.rec.response = ResponseMissingId, !.rec.pc = "done"])
        ELSE IF busy \/ ~SessionExists(sessions, sid) \/ Len(heap[sessions[sid]]) = 0
        THEN Commit(r, HandlerDegenerate(w, sid))
        ELSE Commit(r, PipelineCall([w EXCEPT !.rec.events = sessions[sid]]))
  /\ UNCHANGED clock
  /\ UNCHANGED segVars

\* POST /finalize-session up to its first await; sid = Undefined: no sessionId in the body
FinalizeSession(r, sid) ==
  /\ req[r].pc = "idle"
  /\ calls' = calls + 1
  /\ LET w == [World(r) EXCEPT !.rec.kind = "finalize", !.rec.sessionId = sid]
     IN IF sid = Undefined
        THEN Commit(r, [w EXCEPT !.rec.response = ResponseMissingId, !.rec.pc = "done"])
        ELSE IF ~SessionExists(sessions, sid) \/ Len(heap[sessions[sid]]) = 0
        THEN Commit(r, HandlerDegenerate(w, sid))
        ELSE Commit(r, PipelineCall([w EXCEPT !.rec.events = sessions[sid]]))
  /\ UNCHANGED clock
  /\ UNCHANGED segVars

\* runFinalizationPipeline(sid, events) called directly, up to its first await
CallPipeline(r, sid, events) ==
  /\ req[r].pc = "idle"
  /\ calls < MaxCalls
  /\ calls' = calls + 1
  /\ LET w == [World(r) EXCEPT !.heap = Append(@, events), !.rec.kind = "pipeline", !.rec.sessionId = sid, !.rec.events = Len(heap) + 1]
     IN Commit(r, PipelineCall(w))
  /\ UNCHANGED clock
  /\ UNCHANGED segVars

\* canonicalizeScreens(events) called directly, up to its await
CallCanonicalize(r, events) ==
  /\ req[r].pc = "idle"
  /\ calls < MaxCalls
  /\ calls' = calls + 1
  /\ LET w == [World(r) EXCEPT !.heap = Append(@, events), !.rec.kind = "canon", !.rec.events = Len(heap) + 1]
     IN IF Len(events) = 0 THEN Commit(r, [w EXCEPT !.rec.pc = "done"]) ELSE Commit(r, CanonicalizeCall(w))
  /\ UNCHANGED clock
  /\ UNCHANGED segVars

\* segmentInstances(events, screens) called directly, up to its await
CallSegmentInstances(r, events) ==
  /\ req[r].pc = "idle"
  /\ calls < MaxCalls
  /\ calls' = calls + 1
  /\ LET w == [World(r) EXCEPT !.heap = Append(@, events), !.rec.kind = "seg", !.rec.events = Len(heap) + 1]
     IN Commit(r, SegmentationCall(w))
  /\ UNCHANGED clock
  /\ UNCHANGED segVars

\* synthesizeTemplate(instance, screens, sessionId) called directly, up to
\* its await; events is the array the instance's events are taken from
CallSynthesizeTemplate(r, sid, events, instance) ==
  /\ req[r].pc = "idle"
  /\ calls < MaxCalls
  /\ calls' = calls + 1
  /\ LET w == [World(r) EXCEPT !.heap = Append(@, events), !.rec.kind = "synth", !.rec.sessionId = sid,
                               !.rec.events = Len(heap) + 1, !.rec.detected = <<instance>>]
     IN Commit(r, SynthesisCall(w))
  /\ UNCHANGED clock
  /\ UNCHANGED segVars

\* the canonicalization collaborator answers
CanonReturn(r, resp) ==
  /\ req[r].pc = "awaitCanon"
  /\ LET w == CanonicalizeReturn(World(r), resp)
     IN IF req[r].kind = "canon" THEN Commit(r, [w EXCEPT !.rec.pc = "done"]) ELSE Commit(r, SegmentationCall(w))
  /\ UNCHANGED <<clock, calls>>
  /\ UNCHANGED segVars

\* the segmentation collaborator answers
SegReturn(r, resp) ==
  /\ req[r].pc = "awaitSeg"
  /\ Commit(r, AfterSegmentation(World(r), SegInstances(resp, Len(heap[req[r].events]))))
  /\ UNCHANGED <<clock, calls>>
  /\ UNCHANGED segVars

\* the synthesis collaborator answers
SynthReturn(r, resp) ==
  /\ req[r].pc = "awaitSynth"
  /\ Commit(r, AfterSynthesis(World(r), resp))
  /\ UNCHANGED <<clock, calls>>
  /\ UNCHANGED segVars

\* POST /reset: clearAllData() drops and recreates the three tables,
\* sessionStore.clear() forgets every session
Reset ==
  /\ db # EmptyDb \/ \E sid \in SessionIds : sessions[sid] # 0
  /\ db' = EmptyDb
  /\ sessions' = [sid \in SessionIds |-> 0]
  /\ UNCHANGED <<heap, nextId, clock, calls, req>>
  /\ UNCHANGED segVars

\* an event array nothing refers to any more
Unreferenced(a, ss, rq) == (\A sid \in SessionIds : ss[sid] # a) /\ (\A q \in Reqs : rq[q].events # a)

\* the caller has its answer; the slot is free again, and the event arrays
\* nothing refers to are collected
Recycle(r) ==
  /\ req[r].pc = "done"
  /\ req' = [req EXCEPT ![r] = IdleReq]
  /\ heap' = [a \in 1..Len(heap) |-> IF Unreferenced(a, sessions, req') THEN <<>> ELSE heap[a]]
  /\ UNCHANGED <<sessions, db, nextId, clock, calls>>
  /\ UNCHANGED segVars

(***************************************************************************)
(* The collaborator's answers and the inputs the server model draws from.  *)
(***************************************************************************)
PipeCanonResps ==
  { CanonError, CanonNonJson, CanonNoArray,
    CanonJson(<<Cluster(<<0>>, "Product Detail Page", "d"), Cluster(<<1>>, "Shopping Cart", "d")>>),
    CanonJson(<<Cluster(<<0, 1>>, "Shop", "d")>>),
    CanonJson(<<Cluster(<<0>>, "Product Detail Page", "d")>>),
    CanonJson(<<Cluster(<<0>>, Undefined, "d"), Cluster(<<1>>, "Shopping Cart", "d")>>),
    CanonJson(<<Cluster(<<0>>, "Product Detail Page", "d"), ClusterNoIds("Shopping Cart")>>) }

PipeSegResps ==
  { SegError, SegNonJson, SegNoArray,
    SegJson(<<>>),
    SegJson(<<Inst("Buy", 0, 1, TRUE)>>),
    SegJson(<<Inst("Pay", 1, 9, TRUE), Inst("Buy", 0, 0, FALSE)>>),
    SegJson(<<Inst(Undefined, 0, 1, TRUE)>>),
    SegJson(<<Inst("Buy", 0, 0, TRUE), InstNull>>) }

PipeSynthResps ==
  { SynthError, SynthNonJson, SynthNoTemplate,
    SynthJson("Search and Add to Cart", "d", {"search_query"}, {}, <<1, 2>>, {"search_query"}, {}),
    SynthJson(Undefined, "d", {}, {}, <<1>>, {}, {}),
    [SynthJson("Checkout", "d", {}, {}, <<1>>, {}, {}) EXCEPT !.ivInputs = Undefined],
    [SynthJson("Checkout", "d", {"search_query"}, {}, <<1>>, {}, {}) EXCEPT !.ivInputs = Undefined] }

\* event lists handed to a direct call of runFinalizationPipeline
PipeDirectInputs == { <<>>, <<Event(UrlCart, 1)>> }

Next ==
  \E r \in {"r1"} :
    \/ \E sid \in SessionIds, url \in IngestUrls : Ingest(sid, url)
    \/ calls < MaxCalls /\ \E sid \in SessionIds \cup {Undefined} : FinalizeSession(r, sid)
    \/ \E sid \in SessionIds, events \in PipeDirectInputs : CallPipeline(r, sid, events)
    \/ \E resp \in PipeCanonResps : CanonReturn(r, resp)
    \/ \E resp \in PipeSegResps : SegReturn(r, resp)
    \/ \E resp \in PipeSynthResps : SynthReturn(r, resp)
    \/ Recycle(r)

Spec == Init /\ [][Next]_vars

(***************************************************************************)
(* Properties of the server.                                               *)
(***************************************************************************)
\* slot r holds a finished run of the pipeline (over HTTP or called directly)
PipelineDone(r) == req[r].pc = "done" /\ req[r].kind \in {"finalize", "pipeline"} /\ req[r].sessionId # Undefined

\* the run in slot r was given no events at all
ZeroEvents(r) == req[r].events = 0 \/ Len(heap[req[r].events]) = 0

C2_CollaboratorFailuresRecovered ==
  \A r \in Reqs : PipelineDone(r) /\ ~ZeroEvents(r) =>
    /\ req[r].ret.state = "returned"
    /\ (req[r].kind = "finalize" => req[r].response.ok)

\* C3: finalizing zero events returns an all-empty result (no screens, no
\* templates, no instances) and calls the collaborator zero times.
C3_ZeroEventsEmptyNoCalls ==
  \A r \in Reqs : PipelineDone(r) /\ ZeroEvents(r) =>
    /\ req[r].llm = [canon |-> 0, seg |-> 0, synth |-> 0]
    /\ req[r].screens = <<>> /\ req[r].results = <<>>
    /\ (req[r].kind = "pipeline" => req[r].ret = [state |-> "returned", value |-> EmptyResult])
    /\ (req[r].kind = "finalize" => req[r].response = ResponseNoEvents)

\* a direct call of the pipeline with an empty event list has returned
C3_Witness ==
  \E r \in Reqs : PipelineDone(r) /\ req[r].kind = "pipeline" /\ req[r].events # 0 /\ ZeroEvents(r) /\ req[r].ret.state = "returned"

\* segmentation ran in slot r's run and detected no instance
ZeroInstances(r) == PipelineDone(r) /\ ~ZeroEvents(r) /\ req[r].llm.seg = 1 /\ req[r].detected = <<>>

\* C4: when the event list is non-empty and segmentation yields zero
\* instances, the run persists every canonical screen it created, makes no
\* synthesis call, persists no template and no instance, and returns the
\* screens with empty templates and instances.
C4_ZeroInstancesPersistScreens ==
  \A r \in Reqs : ZeroInstances(r) =>
    /\ \A k \in 1..Len(req[r].screens) : ScreenRow(req[r].screens[k]) \in db.screens
    /\ req[r].llm.synth = 0
    /\ req[r].ret = [state |-> "returned", value |-> [screens |-> req[r].screens, templates |-> <<>>, instances |-> <<>>]]

(***************************************************************************)
(* canonicalizeScreens on its own: every event list up to MaxStageEvents   *)
(* over StageUrls, every answer of up to MaxClusters clusters.             *)
(***************************************************************************)
StageEventLists ==
  UNION {{[i \in 1..n |-> Event(f[i], i)] : f \in [1..n -> StageUrls]} : n \in 0..MaxStageEvents}

StageClusters ==
  {Cluster(g, "Product Detail Page", "d") : g \in {<<0>>, <<1>>, <<2>>, <<1, 0>>, <<0, 0>>, <<7>>}}
    \cup {Cluster(<<0>>, Undefined, "d"), Cluster(<<1>>, "Shopping Cart", Undefined), Cluster(<<>>, "Empty", "d"), ClusterNoIds("Broken")}

StageCanonResps ==
  {CanonError, CanonNonJson, CanonNoArray}
    \cup UNION {{CanonJson(c) : c \in [1..n -> StageClusters]} : n \in 0..MaxClusters}

CanonNext ==
  \E r \in {"r1"} :
    \/ req[r].pc = "idle" /\ \E events \in StageEventLists : CallCanonicalize(r, events)
    \/ req[r].pc = "awaitCanon" /\ \E resp \in StageCanonResps : CanonReturn(r, resp)
    \/ Recycle(r)

CanonSpec == Init /\ [][CanonNext]_vars

\* slot r holds a returned call of canonicalizeScreens on a non-empty event list
CanonDone(r) == req[r].pc = "done" /\ req[r].kind = "canon" /\ req[r].llm.canon = 1

\* C7: after canonicalizeScreens returns on a non-empty event list with a
\* well-formed answer, every event has a screenId and an eventScreenMappings
\* entry naming one of the returned screens (a group the answer lists in no
\* cluster gets a screen of its own).
C7_EveryEventMapped ==
  \A r \in Reqs : CanonDone(r) /\ CanonWellFormed(req[r].canonResp) =>
    \A i \in 1..Len(heap[req[r].events]) :
      /\ heap[req[r].events][i].screenId # Undefined
      /\ req[r].mappings[i] = heap[req[r].events][i].screenId
      /\ \E k \in 1..Len(req[r].screens) : req[r].screens[k].id = req[r].mappings[i]

\* C8: when the canonicalization call fails or its answer is malformed,
\* canonicalizeScreens returns exactly one screen per distinct URL pattern,
\* the N-th pattern's screen labelled "Screen N", and every event is mapped
\* to the screen of its own pattern.
C8_FallbackOnePerPattern ==
  \A r \in Reqs : CanonDone(r) /\ ~CanonWellFormed(req[r].canonResp) =>
    LET evs == heap[req[r].events]
        pats == PatternsOf(evs)
        scr == req[r].screens
    IN /\ Len(scr) = Len(pats)
       /\ \A g \in 1..Len(pats) : scr[g].label = "Screen " \o ToString(g) /\ scr[g].urlPatterns = <<pats[g]>>
       /\ \A i \in 1..Len(evs) : \E g \in 1..Len(pats) :
            /\ pats[g] = ExtractUrlPattern(evs[i].url)
            /\ evs[i].screenId = scr[g].id
            /\ req[r].mappings[i] = scr[g].id

\* C5: a finalize that ends ok (after the pipeline returned, or at once for
\* an unknown session or zero events) calls SessionStore.delete for its
\* session exactly once, in its last step, and the session is gone then.
C5_DeleteOnceAtEnd ==
  [][\A r \in Reqs :
       (req[r].pc # "done" /\ req'[r].pc = "done" /\ req'[r].kind = "finalize" /\ req'[r].response.ok) =>
         /\ req[r].deletes = 0
         /\ req'[r].deletes = 1
         /\ ~SessionExists(sessions', req'[r].sessionId)]_vars

\* a finalize ran the pipeline over a stored session, answered ok and deleted it
C5_Witness ==
  \E r \in Reqs : PipelineDone(r) /\ req[r].kind = "finalize" /\ req[r].llm.canon = 1 /\ req[r].response.ok /\ req[r].deletes = 1

\* C6: a store write that fails during a finalize reaches the caller as a
\* failure: the pipeline throws, the request answers 500 with an error and
\* never ok, and nothing else answers that way.
C6_StoreFailurePropagates ==
  \A r \in Reqs : req[r].pc = "done" =>
    /\ (req[r].storeFailed => req[r].ret.state = "threw")
    /\ (req[r].storeFailed /\ req[r].kind = "finalize" => req[r].response = ResponseFailed)
    /\ (req[r].response = ResponseFailed => req[r].storeFailed)

\* a finalize whose store write failed has answered
C6_Witness ==
  \E r \in Reqs : req[r].pc = "done" /\ req[r].kind = "finalize" /\ req[r].storeFailed


(***************************************************************************)
(* The heuristic segmenter, segmentWorkflows(sessionId, sessionState).     *)
(* An event is its screenId and its screenshotPath (the position in the    *)
(* session, which tells two events on the same screen apart).              *)
(***************************************************************************)
SegScreenIds == {"dashboard", "patients", "settings"}

SegEvent(screenId, i) == [screenId |-> screenId, screenshotPath |-> i]

SegEventLists ==
  UNION {{[i \in 1..n |-> SegEvent(f[i], i)] : f \in [1..n -> SegScreenIds]} : n \in 0..MaxSegLen}

\* freq
Freq(events) ==
  [screenId \in {events[i].screenId : i \in 1..Len(events)} |->
     Cardinality({i \in 1..Len(events) : events[i].screenId = screenId})]

\* Object.entries(freq): the screen ids in order of first occurrence
FreqEntries(events) == Dedupe([i \in 1..Len(events) |-> events[i].screenId])

\* index of the first entry with the highest count
FirstMax(entries, freq) ==
  CHOOSE k \in 1..Len(entries) :
    /\ \A j \in 1..Len(entries) : freq[entries[j]] <= freq[entries[k]]
    /\ \A j \in 1..(k - 1) : freq[entries[j]] < freq[entries[k]]

\* .sort((a, b) => b[1] - a[1]): by count, descending, ties in entry order
RECURSIVE SortedScreens(_, _)
SortedScreens(entries, freq) ==
  IF Len(entries) = 0 THEN <<>>
  ELSE LET k == FirstMax(entries, freq)
       IN <<entries[k]>> \o SortedScreens(Slice(entries, 0, k - 1) \o Slice(entries, k, Len(entries)), freq)

\* a selection that forgets the secondCount > 1 test
PickBaseNoMinCount(sorted, freq) ==
  IF Len(sorted) = 0 THEN <<>>
  ELSE IF Len(sorted) > 1 /\ 2 * freq[sorted[2]] >= freq[sorted[1]]
       THEN <<sorted[1], sorted[2]>>
       ELSE <<sorted[1]>>

\* the base screens picked from sortedScreens
PickBase(sorted, freq) ==
  IF Len(sorted) = 0 THEN <<>>
  ELSE IF Len(sorted) > 1 /\ 2 * freq[sorted[2]] >= freq[sorted[1]] /\ freq[sorted[2]] > 1
       THEN <<sorted[1], sorted[2]>>
       ELSE <<sorted[1]>>

\* baseScreenIds
BaseScreenIds(events) == PickBase(SortedScreens(FreqEntries(events), Freq(events)), Freq(events))

\* isBase
\* an isBase that knows the top screen only
IsBaseTopOnly(baseScreenIds, screenId) == Len(baseScreenIds) > 0 /\ screenId = baseScreenIds[1]

IsBase(baseScreenIds, screenId) == screenId \in Range(baseScreenIds)

\* the step pushed for an event
StepOf(event) == [screenId |-> event.screenId, screenshotPath |-> event.screenshotPath]

\* a closing that keeps the event that ended the workflow, base or not
ClosedStepsWithBase(steps, cur, loopDetected, curIsBase) == Append(steps, StepOf(cur))

\* a closing that drops the event that ended the workflow
ClosedStepsNoRepeat(steps, cur, loopDetected, curIsBase) == steps

\* the steps of a workflow that is being ended: if (loopDetected && !curIsBase) steps.push(cur)
ClosedSteps(steps, cur, loopDetected, curIsBase) ==
  IF loopDetected /\ ~curIsBase THEN Append(steps, StepOf(cur)) ELSE steps

\* a push that keeps workflows of two or more steps only
PushWorkflowMinTwo(workflows, steps) ==
  IF Len(steps) > 1 THEN Append(workflows, [steps |-> steps]) ELSE workflows

\* a push that loses the first step
PushWorkflowTail(workflows, steps) ==
  IF Len(steps) > 0 THEN Append(workflows, [steps |-> Tail(steps)]) ELSE workflows

\* a push to the front of the list
PushWorkflowFront(workflows, steps) ==
  IF Len(steps) > 0 THEN <<[steps |-> steps]>> \o workflows ELSE workflows

\* workflows.push({ steps: [...steps] }) when steps.length > 0
PushWorkflow(workflows, steps) ==
  IF Len(steps) > 0 THEN Append(workflows, [steps |-> steps]) ELSE workflows

\* an end of stream that drops the workflow still open
FlushDiscards(workflows, steps, active) == workflows

\* if (active && steps.length > 0) workflows.push({ steps: [...steps] })
FlushWorkflows(workflows, steps, active) ==
  IF active THEN PushWorkflow(workflows, steps) ELSE workflows

\* segmentWorkflows is called: up to the first iteration of the loop
SegmentWorkflows(events) ==
  /\ segPc = "off"
  /\ segEvents' = events
  /\ segBase' = IF Len(events) <= 1 THEN <<>> ELSE BaseScreenIds(events)
  /\ segI' = 1
  /\ segSteps' = <<>>
  /\ segActive' = FALSE
  /\ segSeen' = {}
  /\ segWorkflows' = <<>>
  /\ segPc' = IF Len(events) <= 1 THEN "returned" ELSE "loop"
  /\ UNCHANGED serverVars

\* one iteration of for (let i = 1; i < events.length; i++)
SegLoop ==
  /\ segPc = "loop"
  /\ segI < Len(segEvents)
  /\ LET prev == segEvents[segI]
         cur == segEvents[segI + 1]
         prevIsBase == IsBase(segBase, prev.screenId)
         curIsBase == IsBase(segBase, cur.screenId)
         starts == prevIsBase /\ ~curIsBase
         steps == IF starts THEN <<>> ELSE segSteps
         seen == IF starts THEN {} ELSE segSeen
         active == IF starts THEN TRUE ELSE segActive
         loopDetected == cur.screenId \in seen
         returnedToBase == ~prevIsBase /\ curIsBase
     IN IF ~active
        THEN /\ segSteps' = steps
             /\ segSeen' = seen
             /\ segActive' = active
             /\ segWorkflows' = segWorkflows
        ELSE IF returnedToBase \/ loopDetected
        THEN /\ segWorkflows' = PushWorkflow(segWorkflows, ClosedSteps(steps, cur, loopDetected, curIsBase))
             /\ segSteps' = <<>>
             /\ segSeen' = {}
             /\ segActive' = FALSE
        ELSE /\ segSteps' = Append(steps, StepOf(cur))
             /\ segSeen' = seen \cup {cur.screenId}
             /\ segActive' = active
             /\ segWorkflows' = segWorkflows
  /\ segI' = segI + 1
  /\ UNCHANGED <<segEvents, segBase, segPc>>
  /\ UNCHANGED serverVars

\* after the loop: a workflow still active is saved, and the function returns
SegFlush ==
  /\ segPc = "loop"
  /\ segI >= Len(segEvents)
  /\ segWorkflows' = FlushWorkflows(segWorkflows, segSteps, segActive)
  /\ segPc' = "returned"
  /\ UNCHANGED <<segEvents, segBase, segI, segSteps, segActive, segSeen>>
  /\ UNCHANGED serverVars

SegNext ==
  \/ segPc = "off" /\ \E events \in SegEventLists : SegmentWorkflows(events)
  \/ SegLoop
  \/ SegFlush

SegSpec == Init /\ [][SegNext]_vars

\* the event the next iteration of the loop looks at
SegCur == segEvents[segI + 1]

SegInLoop == segPc = "loop" /\ segI < Len(segEvents)

\* events a..b leave a base screen, visit pairwise-distinct non-base screens and return to base
BaseToBase(a, b) ==
  /\ a + 1 < b
  /\ IsBase(segBase, segEvents[a].screenId)
  /\ IsBase(segBase, segEvents[b].screenId)
  /\ \A k \in (a + 1)..(b - 1) : ~IsBase(segBase, segEvents[k].screenId)
  /\ \A k, m \in (a + 1)..(b - 1) : k # m => segEvents[k].screenId # segEvents[m].screenId

C10_LoopCloses ==
  [][/\ SegInLoop /\ segActive /\ ~IsBase(segBase, SegCur.screenId) =>
          IF \E k \in 1..Len(segSteps) : segSteps[k].screenId = SegCur.screenId
          THEN /\ segWorkflows' = Append(segWorkflows, [steps |-> Append(segSteps, StepOf(SegCur))])
               /\ ~segActive'
          ELSE /\ segSteps' = Append(segSteps, StepOf(SegCur))
               /\ segActive'
               /\ segWorkflows' = segWorkflows
     /\ segPc # "off" => Len(segWorkflows') >= Len(segWorkflows) /\ \A k \in 1..Len(segWorkflows) : segWorkflows'[k] = segWorkflows[k]]_vars

C10_Witness ==
  /\ segPc = "returned"
  /\ \E k \in 1..Len(segWorkflows) :
       LET st == segWorkflows[k].steps
       IN Len(st) >= 3 /\ \E j \in 1..(Len(st) - 1) : st[j].screenId = st[Len(st)].screenId

\* C11: a workflow still open when the events run out is emitted with the
\* steps gathered so far, as the last workflow of the result; it is never
\* dropped (an open workflow always has at least one step).
C11_EndOfStreamFlush ==
  /\ [][segPc = "loop" /\ segPc' = "returned" /\ segActive =>
          /\ Len(segSteps) > 0
          /\ segWorkflows' = Append(segWorkflows, [steps |-> segSteps])]_vars
  /\ [](segPc = "returned" /\ segActive =>
          /\ Len(segWorkflows) > 0
          /\ segWorkflows[Len(segWorkflows)].steps = segSteps
          /\ segSteps[Len(segSteps)] = StepOf(segEvents[Len(segEvents)]))

\* three events, the first on the base screen, no return to base: one
\* workflow of the two later events has been flushed
C11_Witness ==
  /\ segPc = "returned" /\ segActive
  /\ Len(segEvents) = 3
  /\ segWorkflows = <<[steps |-> <<StepOf(segEvents[2]), StepOf(segEvents[3])>>]>>

\* position of the first event on a screen
FirstSeen(events, screenId) == CHOOSE i \in 1..Len(events) : events[i].screenId = screenId /\ \A j \in 1..(i - 1) : events[j].screenId # screenId

\* screen a ranks before screen b: more events, or as many and seen earlier
RanksBefore(events, a, b) ==
  \/ Freq(events)[a] > Freq(events)[b]
  \/ Freq(events)[a] = Freq(events)[b] /\ FirstSeen(events, a) < FirstSeen(events, b)

\* the same events, last first: every screen keeps its count
Reversed(events) == [i \in 1..Len(events) |-> events[Len(events) + 1 - i]]

\* C12 as the code has it: for two events or more, the base screens follow
\* from the counts and, between screens of equal count, from which was seen
\* first.  The first-ranked screen is always base; the second-ranked one is
\* base iff count2 >= count1/2 and count2 > 1; no other screen is base.
C12_BaseFromCountsAndOrder ==
  segPc # "off" /\ Len(segEvents) >= 2 =>
    LET ids == DOMAIN Freq(segEvents)
        top == CHOOSE a \in ids : \A b \in ids \ {a} : RanksBefore(segEvents, a, b)
        rest == ids \ {top}
        second == CHOOSE a \in rest : \A b \in rest \ {a} : RanksBefore(segEvents, a, b)
    IN IF rest # {} /\ 2 * Freq(segEvents)[second] >= Freq(segEvents)[top] /\ Freq(segEvents)[second] > 1
       THEN segBase = <<top, second>>
       ELSE segBase = <<top>>

\* two base screens and a third screen that is not base
C12_Witness ==
  /\ segPc = "returned"
  /\ Len(segBase) = 2
  /\ \E i \in 1..Len(segEvents) : ~IsBase(segBase, segEvents[i].screenId)

\* C12 as stated: the base-screen set is a function of the frequency counts
\* only, so the same events in another order (same counts) have the same
\* base screens.
C12_BaseFromCountsOnly ==
  segPc # "off" /\ Len(segEvents) >= 2 =>
    Range(BaseScreenIds(Reversed(segEvents))) = Range(segBase)


(***************************************************************************)
(* segmentInstances on its own: event lists up to MaxStageEvents, answers  *)
(* of up to MaxInsts instance tuples; next to it segmentWorkflows on the   *)
(* event lists of length at most 1.                                        *)
(***************************************************************************)
StageSegEventLists == {[i \in 1..n |-> Event(UrlCart, i)] : n \in 0..MaxStageEvents}

\* instance tuples with numeric indices: inside the list, reversed, below 0
\* and past the end
StageSegInsts ==
  {Inst("Buy", se[1], se[2], TRUE) : se \in {<<0, 0>>, <<1, 1>>, <<0, 1>>, <<1, 0>>, <<-1, 5>>, <<2, 9>>, <<1, 2>>}}
    \cup {Inst("Pay", 0, 0, FALSE)}

StageSegResps ==
  {SegError, SegNonJson, SegNoArray, SegJson(<<InstNoIndices("Buy")>>), SegJson(<<Inst(Undefined, 0, 1, TRUE)>>), SegJson(<<InstNull>>)}
    \cup UNION {{SegJson(c) : c \in [1..k -> StageSegInsts]} : k \in 0..MaxInsts}

SegTrivialLists == {<<>>} \cup {<<SegEvent(s, 1)>> : s \in SegScreenIds}

SegmenterNext ==
  \/ \E r \in {"r1"} :
       \/ req[r].pc = "idle" /\ \E events \in StageSegEventLists : CallSegmentInstances(r, events)
       \/ req[r].pc = "awaitSeg" /\ \E resp \in StageSegResps : SegReturn(r, resp)
       \/ Recycle(r)
  \/ segPc = "off" /\ \E events \in SegTrivialLists : SegmentWorkflows(events)

SegmenterSpec == Init /\ [][SegmenterNext]_vars

\* slot r holds a call of segmentInstances on n events
SegCallOn(r, n) == req[r].kind = "seg" /\ req[r].events # 0 /\ Len(heap[req[r].events]) = n

\* C13: on an event list of length at most 1 neither segmenter calls the
\* collaborator; segmentWorkflows returns no workflow, segmentInstances
\* returns no instance for the empty list and the one instance spanning
\* [0, 0] for a single event.
C13_TrivialListsNoCall ==
  /\ [](\A r \in Reqs :
          /\ SegCallOn(r, 0) => req[r].pc = "done" /\ req[r].llm.seg = 0 /\ req[r].detected = <<>>
          /\ SegCallOn(r, 1) =>
               /\ req[r].pc = "done" /\ req[r].llm.seg = 0
               /\ Len(req[r].detected) = 1
               /\ req[r].detected[1].startEventIndex = 0
               /\ req[r].detected[1].endEventIndex = 0
               /\ req[r].detected[1].events = <<1>>)
  /\ [](segPc # "off" /\ Len(segEvents) <= 1 => segPc = "returned" /\ segWorkflows = <<>>)
  /\ [][segPc' # segPc => req' = req]_vars

\* both segmenters have returned on a single event
C13_Witness ==
  /\ SegCallOn("r1", 1) /\ req["r1"].pc = "done" /\ req["r1"].detected[1].goal = "Single action"
  /\ segPc = "returned" /\ Len(segEvents) = 1



\* slot r holds a call of segmentInstances that returned after the
\* collaborator answered
SegAnswered(r) == req[r].kind = "seg" /\ req[r].pc = "done" /\ req[r].llm.seg = 1

\* events.slice(start, end + 1) as positions of the input
PositionsOf(start, end) == [i \in 1..(end - start + 1) |-> start + i]

\* C14: every DetectedInstance made from a tuple of the collaborator has
\* 0 <= startEventIndex <= endEventIndex <= events.length - 1, its events
\* are exactly the events at startEventIndex..endEventIndex, and the
\* instances come back ordered by startEventIndex ascending.
C14_ClampedSlicedSorted ==
  \A r \in Reqs : SegAnswered(r) =>
    LET n == Len(heap[req[r].events])
        d == req[r].detected
    IN /\ \A k \in 1..Len(d) :
            /\ ~d[k].nan
            /\ 0 <= d[k].startEventIndex
            /\ d[k].startEventIndex <= d[k].endEventIndex
            /\ d[k].endEventIndex <= n - 1
            /\ d[k].events = PositionsOf(d[k].startEventIndex, d[k].endEventIndex)
       /\ \A k, l \in 1..Len(d) : k < l => d[k].startEventIndex <= d[l].startEventIndex



\* the answers on which the segmentation call fails: the request rejects,
\* the text is not JSON, or reading the instances raises a TypeError
StageSegFailures == {resp \in StageSegResps : SegThrows(resp)}

\* C15: when the segmentation call fails on at least 2 events,
\* segmentInstances returns exactly one instance: goal "Browsing session",
\* startEventIndex 0, endEventIndex events.length - 1, succeeded true, and
\* the whole input as its events.
C15_FailureGivesBrowsingSession ==
  [][\A r \in Reqs, resp \in StageSegFailures :
       req[r].kind = "seg" /\ SegReturn(r, resp) =>
         LET n == Len(heap[req[r].events])
         IN /\ n >= 2
            /\ req'[r].pc = "done"
            /\ Len(req'[r].detected) = 1
            /\ req'[r].detected[1].goal = "Browsing session"
            /\ req'[r].detected[1].startEventIndex = 0
            /\ req'[r].detected[1].endEventIndex = n - 1
            /\ req'[r].detected[1].succeeded
            /\ req'[r].detected[1].events = [i \in 1..n |-> i]
            /\ heap'[req'[r].events] = heap[req[r].events]]_vars

\* a call on three events came back with the fallback instance
C15_Witness ==
  /\ SegCallOn("r1", 3) /\ SegAnswered("r1")
  /\ Len(req["r1"].detected) = 1
  /\ req["r1"].detected[1].goal = "Browsing session"
  /\ req["r1"].detected[1].events = <<1, 2, 3>>



(***************************************************************************)
(* synthesizeTemplate on its own: one DetectedInstance over an event list  *)
(* of up to MaxStageEvents events, whose events carry an action summary, a *)
(* clicked text (short, longer than 50 and than 100 characters, empty) or  *)
(* neither.                                                                *)
(***************************************************************************)
LongText == "Add to Cart and proceed to checkout with the saved payment method and the default shipping address of this account today"

SynthTexts ==
  { <<Undefined, Undefined>>, <<Undefined, "">>, <<Undefined, "Add to Cart">>, <<Undefined, LongText>>, <<"Click search", LongText>> }

SynthEventLists ==
  UNION {{[i \in 1..n |-> EventWith(UrlCart, i, f[i][1], f[i][2])] : f \in [1..n -> SynthTexts]} : n \in 1..MaxStageEvents}

\* the DetectedInstance segmentInstances makes of events[start..end]
Detected(goal, start, end) ==
  [goal |-> goal, startEventIndex |-> start, endEventIndex |-> end, succeeded |-> TRUE,
   events |-> PositionsOf(start, end), nan |-> FALSE]

\* the spans [start, end] of a list of n events
SynthSpans(n) == {se \in (0..(n - 1)) \X (0..(n - 1)) : se[1] <= se[2]}

SynthInputs ==
  UNION {{<<events, Detected("Buy", se[1], se[2])>> : se \in SynthSpans(Len(events))} : events \in SynthEventLists}

StageSynthResps ==
  PipeSynthResps \cup {SynthJson("Checkout", "d", {}, {}, steps, {}, {}) : steps \in {<<>>, <<1, 2, 3, 4>>, <<2, 1>>, <<1, 3>>}}

StageSynthFailures == {resp \in StageSynthResps : SynthThrows(resp)}

SynthNext ==
  \E r \in {"r1"} :
    \/ req[r].pc = "idle" /\ \E input \in SynthInputs : CallSynthesizeTemplate(r, "s1", input[1], input[2])
    \/ req[r].pc = "awaitSynth" /\ \E resp \in StageSynthResps : SynthReturn(r, resp)
    \/ Recycle(r)

SynthSpec == Init /\ [][SynthNext]_vars



\* slot r holds a returned direct call of synthesizeTemplate
SynthDone(r) == req[r].kind = "synth" /\ req[r].pc = "done" /\ Len(req[r].results) = 1

\* the text is absent: undefined or empty
NoText(text) == text = Undefined \/ text = ""

\* what a fallback step says of its event: the action summary when there is
\* one, else the clicked text cut to its first 50 characters, else "Action"
StepTextOf(event, text) ==
  IF ~NoText(event.actionSummary) THEN text = event.actionSummary
  ELSE IF ~NoText(event.targetText)
  THEN /\ Len(text) <= 50
       /\ text = SubSeq(event.targetText, 1, Len(text))
       /\ (Len(event.targetText) <= 50 => text = event.targetText)
       /\ (Len(event.targetText) > 50 => Len(text) = 50)
  ELSE text = "Action"

\* what a fallback step would say if it carried the raw text: the action
\* summary when there is one, else the clicked text
RawTextOf(event, text) ==
  IF ~NoText(event.actionSummary) THEN text = event.actionSummary ELSE text = event.targetText

\* the fallback pair apart from the texts of its steps
FallbackPairShape(instance, pair) ==
  /\ DOMAIN pair.template.inputs = {} /\ DOMAIN pair.template.outputs = {}
  /\ Len(pair.template.steps) = Len(instance.events)
  /\ \A i \in 1..Len(instance.events) : pair.template.steps[i].stepNumber = i
  /\ pair.instance.parameterValues = Present /\ pair.instance.parameterNames = {}
  /\ pair.instance.extractedValues = Present /\ pair.instance.extractedNames = {}
  /\ pair.instance.templateId = pair.template.id

\* C16 (amended): when the synthesis call fails, synthesizeTemplate still
\* returns a (template, instance) pair: the template has empty inputs and
\* outputs and one step per event of the instance, numbered by the event's
\* position, whose text is the event's action summary, else the first 50
\* characters of its clicked text, else "Action"; the instance has empty
\* parameterValues and extractedValues.
C16_FallbackPair ==
  [][\A r \in Reqs, resp \in StageSynthFailures :
       req[r].kind = "synth" /\ SynthReturn(r, resp) =>
         LET instance == req[r].detected[1]
             events == heap[req[r].events]
         IN /\ SynthDone(r)'
            /\ FallbackPairShape(instance, req'[r].results[1])
            /\ \A i \in 1..Len(instance.events) :
                 StepTextOf(events[instance.events[i]], req'[r].results[1].template.steps[i].actionTemplate)]_vars

\* a failed call on three events returned the fallback pair; the second
\* event's clicked text is longer than 50 characters
C16_Witness ==
  /\ SynthDone("r1")
  /\ req["r1"].results[1].template.description = "Workflow: Buy"
  /\ Len(req["r1"].results[1].template.steps) = 3
  /\ heap[req["r1"].events][2].targetText = LongText
  /\ req["r1"].results[1].template.steps[2].actionTemplate = "Add to Cart and proceed to checkout with the saved"
  /\ req["r1"].results[1].template.steps[3].actionTemplate = "Action"

\* C16 as stated: the text of each fallback step is the event's raw
\* action/clicked text.
C16_FallbackPairRawText ==
  [][\A r \in Reqs, resp \in StageSynthFailures :
       req[r].kind = "synth" /\ SynthReturn(r, resp) =>
         LET instance == req[r].detected[1]
             events == heap[req[r].events]
         IN /\ SynthDone(r)'
            /\ FallbackPairShape(instance, req'[r].results[1])
            /\ \A i \in 1..Len(instance.events) :
                 RawTextOf(events[instance.events[i]], req'[r].results[1].template.steps[i].actionTemplate)]_vars

\* C17: on the success and on the fallback path the WorkflowInstance has
\* exactly one stepSnapshot per event of the DetectedInstance, in the order
\* of the events and numbered 1..N, whatever the number of steps the
\* collaborator declared.
C17_OneSnapshotPerEvent ==
  [][\A r \in Reqs, resp \in StageSynthResps :
       req[r].kind = "synth" /\ SynthReturn(r, resp) =>
         LET instance == req[r].detected[1]
             events == heap[req[r].events]
             snapshots == req'[r].results[1].instance.stepSnapshots
         IN /\ SynthDone(r)'
            /\ Len(snapshots) = Len(instance.events)
            /\ \A i \in 1..Len(snapshots) :
                 /\ snapshots[i].stepNumber = i
                 /\ snapshots[i].screenshotPath = events[instance.startEventIndex + i].screenshotPath]_vars

\* the collaborator declared four steps for an instance of two events
C17_Witness ==
  /\ SynthDone("r1")
  /\ Len(req["r1"].results[1].template.steps) = 4
  /\ Len(req["r1"].detected[1].events) = 2
  /\ Len(req["r1"].results[1].instance.stepSnapshots) = 2
  /\ req["r1"].results[1].instance.stepSnapshots[2].stepNumber = 2



\* the URLs of StageUrls that differ only in the product id after /dp/
DpUrls == {UrlDpA, UrlDpNum, UrlDpUuid}

\* the two URLs normalize to the same pattern
SamePattern(u, v) == u = v \/ (u \in DpUrls /\ v \in DpUrls)

\* the groups (1-based) event belongs to
GroupsOf(groups, event) == {g \in 1..Len(groups) : groups[g].urlPattern = ExtractUrlPattern(event.url)}

\* slot r holds a call of canonicalizeScreens on a non-empty list
CanonCalled(r) == req[r].kind = "canon" /\ req[r].pc \in {"awaitCanon", "done"} /\ Len(heap[req[r].events]) > 0

\* C18: the grouping by URL pattern is a function of the event list alone:
\* every event is in exactly one group, two events are in the same group
\* exactly when their URLs normalize to the same pattern, and the answer of
\* the collaborator (any response, malformed response or error) leaves the
\* groups as they were; two events of the same pattern never get different
\* screen ids.
C18_GroupingDeterministic ==
  /\ [](\A r \in Reqs : CanonCalled(r) =>
          LET events == heap[req[r].events]
              groups == req[r].groups
          IN /\ \A i \in 1..Len(events) : Cardinality(GroupsOf(groups, events[i])) = 1
             /\ \A g \in 1..Len(groups) : \E i \in 1..Len(events) : g \in GroupsOf(groups, events[i])
             /\ \A i, j \in 1..Len(events) :
                  SamePattern(events[i].url, events[j].url) <=> GroupsOf(groups, events[i]) = GroupsOf(groups, events[j]))
  /\ [][\A r \in Reqs : req[r].kind = "canon" /\ req[r].pc = "awaitCanon" /\ req'[r].pc = "done" =>
          LET events == heap'[req'[r].events]
          IN /\ req'[r].groups = req[r].groups
             /\ \A i, j \in 1..Len(events) :
                  SamePattern(events[i].url, events[j].url) =>
                    /\ events[i].screenId = events[j].screenId
                    /\ req'[r].mappings[i] = req'[r].mappings[j]]_vars

\* two product pages around a cart page were given one screen by a
\* well-formed answer, the cart page another
C18_Witness ==
  /\ CanonCalled("r1") /\ req["r1"].pc = "done" /\ ~CanonThrows(req["r1"].canonResp)
  /\ Len(heap[req["r1"].events]) = 3
  /\ heap[req["r1"].events][1].url = UrlDpA
  /\ heap[req["r1"].events][2].url = UrlCart
  /\ heap[req["r1"].events][3].url = UrlDpNum
  /\ Len(req["r1"].groups) = 2
  /\ req["r1"].mappings[1] # Undefined
  /\ req["r1"].mappings[3] = req["r1"].mappings[1]
  /\ req["r1"].mappings[2] \notin {Undefined, req["r1"].mappings[1]}



(***************************************************************************)
(* The server with POST /reset next to its other requests.                 *)
(***************************************************************************)
StoreNext ==
  \E r \in {"r1"} :
    \/ \E sid \in SessionIds, url \in IngestUrls : Ingest(sid, url)
    \/ calls < MaxCalls /\ \E sid \in SessionIds \cup {Undefined} : FinalizeSession(r, sid)
    \/ \E sid \in SessionIds, events \in PipeDirectInputs : CallPipeline(r, sid, events)
    \/ \E resp \in PipeCanonResps : CanonReturn(r, resp)
    \/ \E resp \in PipeSegResps : SegReturn(r, resp)
    \/ \E resp \in PipeSynthResps : SynthReturn(r, resp)
    \/ Recycle(r)
    \/ Reset

StoreSpec == Init /\ [][StoreNext]_vars

\* C19: at every moment the templateId of each persisted instance is the
\* id of a persisted template: every synthesized instance carries the id
\* of the template made with it, and no step adds an instance row without
\* the template rows of the run being written by then.
C19_InstanceTemplatePersisted ==
  /\ [](\A i \in db.instances : \E t \in db.templates : t.id = i.templateId)
  /\ [](\A r \in Reqs : \A k \in 1..Len(req[r].results) :
          req[r].results[k].instance.templateId = req[r].results[k].template.id)
  /\ [][\A i \in db'.instances \ db.instances : \E r \in Reqs :
          /\ \E k \in 1..Len(req'[r].results) : InstanceRow(req'[r].results[k].instance) = i
          /\ \A k \in 1..Len(req'[r].results) : TemplateRow(req'[r].results[k].template) \in db'.templates]_vars

\* a run persisted two instances, each with its own template
C19_Witness ==
  /\ Cardinality(db.instances) = 2
  /\ Cardinality({i.templateId : i \in db.instances}) = 2
  /\ \A i \in db.instances : \E t \in db.templates : t.id = i.templateId



(***************************************************************************)
(* Two finalize requests in flight at once: both slots, no slot reused.    *)
(***************************************************************************)
OverlapCanonResps == {CanonError, CanonJson(<<Cluster(<<0>>, "Product Detail Page", "d"), Cluster(<<1>>, "Shopping Cart", "d")>>)}
OverlapSegResps == {SegError, SegJson(<<Inst("Buy", 0, 1, TRUE)>>)}
OverlapSynthResps == {SynthError, SynthJson("Checkout", "d", {}, {}, <<1>>, {}, {})}

ReentrantNext ==
  \/ \E sid \in SessionIds, url \in IngestUrls : Ingest(sid, url)
  \/ \E r \in Reqs :
       \/ \E sid \in SessionIds : FinalizeSession(r, sid)
       \/ \E resp \in OverlapCanonResps : CanonReturn(r, resp)
       \/ \E resp \in OverlapSegResps : SegReturn(r, resp)
       \/ \E resp \in OverlapSynthResps : SynthReturn(r, resp)

ReentrantSpec == Init /\ [][ReentrantNext]_vars

\* slot r holds a finalize request that is awaiting a collaborator
Finalizing(r, sid) == req[r].kind = "finalize" /\ req[r].sessionId = sid /\ req[r].pc \in {"awaitCanon", "awaitSeg", "awaitSynth"}

\* slot r holds a finalize request that ran the whole pipeline and answered ok
FinalizedOk(r) == req[r].kind = "finalize" /\ req[r].pc = "done" /\ req[r].response.ok /\ req[r].events # 0

\* every screen, template and instance of slot r's run is in the store
RunPersisted(r) ==
  /\ \A k \in 1..Len(req[r].screens) : ScreenRow(req[r].screens[k]) \in db.screens
  /\ \A k \in 1..Len(req[r].results) :
       /\ TemplateRow(req[r].results[k].template) \in db.templates
       /\ InstanceRow(req[r].results[k].instance) \in db.instances

\* C20: nothing keeps a second finalize of a session out while a first one
\* is awaiting a collaborator: the second enters the pipeline over the same
\* events, and when both have answered ok each has persisted its own
\* screens, templates and instances.
C20_OverlappingFinalizeDoubleProcesses ==
  /\ [][\A r, q \in Reqs : \A sid \in SessionIds :
          r # q /\ Finalizing(q, sid) /\ FinalizeSession(r, sid) =>
            /\ req'[r].pc = "awaitCanon"
            /\ req'[r].events = req[q].events
            /\ req'[q] = req[q]]_vars
  /\ [](FinalizedOk("r1") /\ FinalizedOk("r2") =>
          /\ RunPersisted("r1") /\ RunPersisted("r2")
          /\ Len(req["r1"].results) > 0 /\ Len(req["r2"].results) > 0
          /\ \A k \in 1..Len(req["r1"].results), l \in 1..Len(req["r2"].results) :
               /\ req["r1"].results[k].template.id # req["r2"].results[l].template.id
               /\ req["r1"].results[k].instance.id # req["r2"].results[l].instance.id)

\* both requests finalized the same two events and answered ok; the store
\* holds the screens, templates and instances of both runs
C20_Witness ==
  /\ FinalizedOk("r1") /\ FinalizedOk("r2")
  /\ req["r1"].events = req["r2"].events
  /\ Len(heap[req["r1"].events]) = 2
  /\ RunPersisted("r1") /\ RunPersisted("r2")
  /\ Cardinality(db.instances) = Len(req["r1"].results) + Len(req["r2"].results)
  /\ Cardinality(db.screens) = Len(req["r1"].screens) + Len(req["r2"].screens)
  /\ Len(req["r1"].screens) > 0 /\ Len(req["r2"].screens) > 0



\* the event at position i of array a is held by a session
HeldBySession(a, i) == (\E sid \in SessionIds : sessions[sid] = a) /\ a <= Len(heap) /\ i <= Len(heap[a])

\* C21: the screenId of an event held by a session starts unset, is
\* written once, and never changes afterwards.
C21_ScreenIdAssignedOnce ==
  [][\A a \in 1..Len(heap) : \A i \in 1..Len(heap[a]) :
       HeldBySession(a, i) /\ heap[a][i].screenId # Undefined =>
         heap'[a][i].screenId = heap[a][i].screenId]_vars



\* slot r holds a run of the pipeline over at least one event
Running(r) == req[r].kind \in {"finalize", "pipeline"} /\ req[r].pc # "idle" /\ req[r].events # 0 /\ Len(heap[req[r].events]) > 0

\* C22: a run of the pipeline on at least one event makes one
\* canonicalization call, zero or one segmentation call, and one synthesis
\* call per detected instance, one at a time and in the order of the
\* instances; no call is issued again, so a finished run that detected k
\* instances made at most 2 + k calls, k of them synthesis calls.
C22_CallsPerRun ==
  \A r \in Reqs : Running(r) =>
    LET llm == req[r].llm
        k == Len(req[r].detected)
        events == heap[req[r].events]
    IN /\ llm.canon = 1
       /\ llm.seg \in {0, 1}
       /\ (req[r].pc = "awaitCanon" => llm.seg = 0 /\ llm.synth = 0)
       /\ (req[r].pc = "awaitSeg" => llm.seg = 1 /\ llm.synth = 0)
       /\ (req[r].pc = "awaitSynth" => llm.synth = Len(req[r].results) + 1 /\ llm.synth <= k)
       /\ (req[r].pc = "done" => llm.synth = k /\ Len(req[r].results) = k /\ llm.canon + llm.seg + llm.synth <= 2 + k)
       /\ \A j \in 1..Len(req[r].results) :
            LET snapshots == req[r].results[j].instance.stepSnapshots
            IN /\ Len(snapshots) = Len(req[r].detected[j].events)
               /\ \A i \in 1..Len(snapshots) :
                    snapshots[i].screenshotPath = events[req[r].detected[j].events[i]].screenshotPath

\* a finished run over two events that detected two instances: one
\* canonicalization, one segmentation and two synthesis calls
C22_Witness ==
  /\ Running("r1") /\ req["r1"].pc = "done"
  /\ Len(req["r1"].detected) = 2
  /\ req["r1"].llm = [canon |-> 1, seg |-> 1, synth |-> 2]
  /\ req["r1"].ret.state = "returned"



\* the screen is one of the base screens of the call
OnBase(screenId) == \E k \in 1..Len(segBase) : segBase[k] = screenId

Departures == {i \in 2..Len(segEvents) : OnBase(segEvents[i - 1].screenId) /\ ~OnBase(segEvents[i].screenId)}

\* C27: on a list of at least 2 events the segmenter returns as many
\* workflows as there are positions where the previous event is on a base
\* screen and the event is not, and each of them has at least one step.
C27_OneWorkflowPerDeparture ==
  segPc = "returned" /\ Len(segEvents) >= 2 =>
    /\ Len(segWorkflows) = Cardinality(Departures)
    /\ \A k \in 1..Len(segWorkflows) : Len(segWorkflows[k].steps) > 0
    /\ \A k \in 1..Len(segWorkflows) : \E i \in Departures : segWorkflows[k].steps[1] = StepOf(segEvents[i])

\* two departures, the first closed by a repeated screen, the second by
\* the end of the stream
C27_Witness ==
  /\ segPc = "returned" /\ Len(segWorkflows) = 2 /\ Cardinality(Departures) = 2
  /\ \E k \in 1..2 : Len(segWorkflows[k].steps) = 2 /\ segWorkflows[k].steps[1].screenId = segWorkflows[k].steps[2].screenId
  /\ ~OnBase(segEvents[Len(segEvents)].screenId)

\* s is t or t with one more step
Extends(s, t) == s = t \/ (Len(s) = Len(t) + 1 /\ SubSeq(s, 1, Len(t)) = t)

\* the positions of the events that are steps of emitted or open workflows,
\* with repetitions (screenshotPath is the position of the event)
RECURSIVE StepPositions(_)
StepPositions(workflows) ==
  IF workflows = <<>> THEN <<>>
  ELSE [j \in 1..Len(Head(workflows).steps) |-> Head(workflows).steps[j].screenshotPath] \o StepPositions(Tail(workflows))

\* C28: while a workflow is open the previous event is on a non-base
\* screen, so a workflow is never started while one is open; no step of an
\* open workflow is ever discarded: each iteration keeps the steps or emits
\* them all, and no event is a step of two workflows.
C28_OpenStepsNeverDiscarded ==
  /\ [](segActive /\ segPc = "loop" => ~OnBase(segEvents[segI].screenId) /\ Len(segSteps) > 0)
  /\ [][segActive /\ segPc = "loop" =>
          \/ segActive' /\ segWorkflows' = segWorkflows /\ Extends(segSteps', segSteps)
          \/ /\ ~segActive'
             /\ Len(segWorkflows') = Len(segWorkflows) + 1
             /\ SubSeq(segWorkflows', 1, Len(segWorkflows)) = segWorkflows
             /\ Extends(segWorkflows'[Len(segWorkflows')].steps, segSteps)
          \/ segPc' = "returned" /\ segWorkflows' = Append(segWorkflows, [steps |-> segSteps])]_vars
  /\ [](LET ps == StepPositions(IF segActive /\ segPc = "loop" THEN Append(segWorkflows, [steps |-> segSteps]) ELSE segWorkflows)
        IN \A i, j \in 1..Len(ps) : i # j => ps[i] # ps[j])

\* after a first workflow, a workflow of two steps was gathered and emitted
\* whole at the end of the stream
C28_Witness ==
  /\ segPc = "returned" /\ segActive /\ Len(segSteps) = 2
  /\ Len(segWorkflows) = 2
  /\ segWorkflows[2].steps = segSteps

\* C29: the workflows come back in stream order, each holds the steps of
\* the events of one run of consecutive positions, in their order, and a
\* later workflow starts after the one before it ended, so no event is a
\* step of two workflows.
C29_ContiguousDisjointRuns ==
  segPc = "returned" =>
    /\ \A k \in 1..Len(segWorkflows) :
         LET st == segWorkflows[k].steps
             first == st[1].screenshotPath
         IN /\ Len(st) > 0
            /\ first + Len(st) - 1 <= Len(segEvents)
            /\ \A j \in 1..Len(st) : st[j] = StepOf(segEvents[first + j - 1])
    /\ \A k \in 1..(Len(segWorkflows) - 1) :
         segWorkflows[k].steps[Len(segWorkflows[k].steps)].screenshotPath < segWorkflows[k + 1].steps[1].screenshotPath

\* a workflow of two steps, then a second workflow after it
C29_Witness ==
  /\ segPc = "returned" /\ Len(segWorkflows) = 2
  /\ Len(segWorkflows[1].steps) = 2 /\ Len(segWorkflows[2].steps) = 1
  /\ segWorkflows[1].steps[2].screenshotPath < segWorkflows[2].steps[1].screenshotPath



\* C24: every WorkflowTemplate synthesizeTemplate returns, on the success
\* path and on the fallback path, has steps numbered 1..N in order, N being
\* the number of its steps.
C24_StepNumbersContiguous ==
  \A r \in Reqs : SynthDone(r) =>
    LET steps == req[r].results[1].template.steps
    IN \A i \in 1..Len(steps) : steps[i].stepNumber = i



\* the step in which the finalize request in slot r answers ok after its
\* pipeline returned, and deletes session sid
FinalizeDeletes(r, sid) ==
  /\ req[r].kind = "finalize" /\ req[r].sessionId = sid
  /\ req[r].pc \in {"awaitCanon", "awaitSeg", "awaitSynth"}
  /\ req'[r].pc = "done" /\ req'[r].response.ok
  /\ sessions[sid] # 0 /\ sessions'[sid] = 0

\* the events of the detected instances of slot r, as positions
InstanceEvents(r) == UNION {Range(req[r].detected[k].events) : k \in 1..Len(req[r].detected)}

\* C25: every event a finalize removes from the session store was
\* processed by that finalize's pipeline: it has a screenId, and it was
\* among the events segmentation was run on (with the whole-list instance
\* of a single event, it is in an instance).  Stated for the runs whose
\* canonicalization took the fallback, which gives a screen to every URL
\* pattern it was called with.
C25_RemovedEventsProcessed ==
  [][\A r \in Reqs, sid \in SessionIds : FinalizeDeletes(r, sid) /\ CanonThrows(req[r].canonResp) =>
       LET events == heap'[sessions[sid]]
       IN /\ \A i \in 1..Len(events) : events[i].screenId # Undefined
          /\ (req'[r].llm.seg = 0 => \A i \in 1..Len(events) : i \in InstanceEvents(r)')]_vars



\* the finalize request in slot r is in flight over events a reset has
\* cleared: its session no longer holds the array it is working on
ClearedInFlight(r) ==
  /\ req[r].kind = "finalize" /\ req[r].pc \in {"awaitCanon", "awaitSeg", "awaitSynth"}
  /\ sessions[req[r].sessionId] # req[r].events

\* C26: after POST /reset the persistent store and the session store are
\* empty, and a finalize that was in flight when the reset ran writes
\* nothing to the persistent store afterwards.
C26_ResetIsFinal ==
  /\ [][Reset => db' = EmptyDb /\ \A sid \in SessionIds : sessions'[sid] = 0]_vars
  /\ [][\A r \in Reqs : ClearedInFlight(r) /\ req'[r] # req[r] => db' = db]_vars



\* C30: in every result of canonicalizeScreens, whatever the collaborator
\* answered, no URL pattern is in the urlPatterns of two screens and no
\* screen lists a pattern twice.  Stated for the calls that failed and for
\* the answers that match the schema.
C30_ScreensPartitionPatterns ==
  \A r \in Reqs : req[r].kind = "canon" /\ req[r].pc = "done"
                    /\ (CanonThrows(req[r].canonResp) \/ CanonWellFormed(req[r].canonResp)) =>
    LET screens == req[r].screens
    IN /\ \A k, l \in 1..Len(screens) :
            k # l => Range(screens[k].urlPatterns) \cap Range(screens[l].urlPatterns) = {}
       /\ \A k \in 1..Len(screens) :
            \A i, j \in 1..Len(screens[k].urlPatterns) :
              i # j => screens[k].urlPatterns[i] # screens[k].urlPatterns[j]


====
